---- MODULE Spec2Model ----
(***************************************************************************)
(* dev-sweep v0.3.1: the catalogue, the matcher, the size aggregator, the  *)
(* walker, the result set (filter and sort) and the cleanup loops of       *)
(* main(), as one sequential state machine over a small file system.        *)
(*                                                                         *)
(* A path is a sequence of entry names (join(dir, name) is Append); a file *)
(* system is the set of the paths that exist, the kind and the stat size   *)
(* of each being fixed by the table DISK.                                  *)
(***************************************************************************)
EXTENDS Integers, Sequences, FiniteSets, TLC

Range(s) == {s[i] : i \in DOMAIN s}

\* The absent option, environment variable or match (null / undefined).
Null == "<null>"

(***************************************************************************)
(* The catalogue                                                           *)
(***************************************************************************)
T(n, t, c) == [name |-> n, type |-> t, cat |-> c]

SAFE_CATS == {"deps", "cache"}
AGGRESSIVE_CATS == {"deps", "cache", "build", "test", "logs"}

TARGETS ==
  << T("node_modules", "dir", "deps"), T(".pnpm-store", "dir", "deps"),
     T(".yarn", "dir", "deps"), T("bower_components", "dir", "deps"),
     T(".next", "dir", "build"), T(".nuxt", "dir", "build"),
     T(".angular", "dir", "build"), T(".expo", "dir", "build"),
     T(".svelte-kit", "dir", "build"), T(".output", "dir", "build"),
     T("dist", "dir", "build"), T("build", "dir", "build"),
     T("out", "dir", "build"), T(".vercel", "dir", "build"),
     T(".turbo", "dir", "cache"), T(".cache", "dir", "cache"),
     T(".parcel-cache", "dir", "cache"), T(".vite", "dir", "cache"),
     T(".eslintcache", "file", "cache"), T(".tsbuildinfo", "file", "cache"),
     T(".stylelintcache", "file", "cache"), T(".prettiercache", "file", "cache"),
     T("tsconfig.tsbuildinfo", "file", "cache"),
     T("coverage", "dir", "test"), T(".nyc_output", "dir", "test"),
     T("storybook-static", "dir", "test"),
     T("__pycache__", "dir", "cache"), T(".pytest_cache", "dir", "cache"),
     T(".mypy_cache", "dir", "cache"), T(".ruff_cache", "dir", "cache"),
     T("venv", "dir", "deps"), T(".venv", "dir", "deps"),
     T("*.egg-info", "pattern", "build"),
     T("target", "dir", "build"), T("vendor", "dir", "deps"),
     T(".gradle", "dir", "cache"),
     T("npm-debug.log", "file", "logs"), T("yarn-error.log", "file", "logs"),
     T("yarn-debug.log", "file", "logs") >>

\* What matchesPattern and the environment give when there is nothing.
NoTarget == T(Null, Null, Null)

\* Home-relative paths of the IDE caches.
IDE_CACHES ==
  << <<".cursor">>, <<".vscode">>, <<".config", "Code">>, <<".config", "Cursor">> >>

targetNames == {t.name : t \in {x \in Range(TARGETS) : x.type # "pattern"}}

\* Object.fromEntries keeps the last entry of a key.
targetMap(name) ==
  LET idx == {i \in DOMAIN TARGETS :
                TARGETS[i].type # "pattern" /\ TARGETS[i].name = name}
  IN TARGETS[CHOOSE i \in idx : \A j \in idx : j <= i]

patternTargets == SelectSeq(TARGETS, LAMBDA t : t.type = "pattern")

(***************************************************************************)
(* Strings.  TLC has no characters, so the names that occur are spelled.   *)
(***************************************************************************)
Spell ==
  "w" :> <<"w">> @@
  "p" :> <<"p">> @@
  "q" :> <<"q">> @@
  "node_modules" :> <<"n", "o", "d", "e", "_", "m", "o", "d", "u", "l", "e", "s">> @@
  "build" :> <<"b", "u", "i", "l", "d">> @@
  ".cache" :> <<".", "c", "a", "c", "h", "e">> @@
  ".git" :> <<".", "g", "i", "t">> @@
  "coverage" :> <<"c", "o", "v", "e", "r", "a", "g", "e">> @@
  ".eslintcache" :> <<".", "e", "s", "l", "i", "n", "t", "c", "a", "c", "h", "e">> @@
  "x.egg-info" :> <<"x", ".", "e", "g", "g", "-", "i", "n", "f", "o">> @@
  "app.js" :> <<"a", "p", "p", ".", "j", "s">> @@
  "a.js" :> <<"a", ".", "j", "s">> @@
  ".vscode" :> <<".", "v", "s", "c", "o", "d", "e">> @@
  ".config" :> <<".", "c", "o", "n", "f", "i", "g">> @@
  "Code" :> <<"C", "o", "d", "e">> @@
  "ext" :> <<"e", "x", "t">> @@
  "*.egg-info" :> <<"*", ".", "e", "g", "g", "-", "i", "n", "f", "o">> @@
  "deps" :> <<"d", "e", "p", "s">> @@
  "cache" :> <<"c", "a", "c", "h", "e">> @@
  "test" :> <<"t", "e", "s", "t">> @@
  "logs" :> <<"l", "o", "g", "s">> @@
  "ide" :> <<"i", "d", "e">> @@
  "myXegg-info" :> <<"m", "y", "X", "e", "g", "g", "-", "i", "n", "f", "o">> @@
  "y.egg-info" :> <<"y", ".", "e", "g", "g", "-", "i", "n", "f", "o">> @@
  "out" :> <<"o", "u", "t">> @@
  "loop" :> <<"l", "o", "o", "p">> @@
  "gone" :> <<"g", "o", "n", "e">> @@
  "zz" :> <<"z", "z">>

\* String.prototype.startsWith(c) for a one-character c.
startsWith(name, c) == Len(Spell[name]) >= 1 /\ Spell[name][1] = c

\* String.prototype.replace('*', '.*'): the first occurrence only.
RECURSIVE ReplaceStar(_)
ReplaceStar(cs) ==
  IF cs = <<>> THEN <<>>
  ELSE IF Head(cs) = "*" THEN <<".", "*">> \o Tail(cs)
  ELSE <<Head(cs)>> \o ReplaceStar(Tail(cs))

\* The regular expression a source string denotes: '.' followed by '*' is
\* any run of characters, a lone '.' is any one character, every other
\* character of the catalogue's patterns stands for itself.
RECURSIVE RegExp(_)
RegExp(cs) ==
  IF cs = <<>> THEN <<>>
  ELSE IF Head(cs) = "." /\ Len(cs) >= 2 /\ cs[2] = "*"
    THEN <<[k |-> "anyrun", c |-> "."]>> \o RegExp(Tail(Tail(cs)))
  ELSE IF Head(cs) = "."
    THEN <<[k |-> "any", c |-> "."]>> \o RegExp(Tail(cs))
  ELSE <<[k |-> "lit", c |-> Head(cs)]>> \o RegExp(Tail(cs))

\* regex.test(s) for a regex anchored at both ends ('^' ... '$').
RECURSIVE RegexTest(_, _)
RegexTest(re, s) ==
  IF re = <<>> THEN s = <<>>
  ELSE LET h == Head(re) IN
    CASE h.k = "anyrun" ->
           \E n \in 0..Len(s) : RegexTest(Tail(re), SubSeq(s, n + 1, Len(s)))
      [] h.k = "any" -> s # <<>> /\ RegexTest(Tail(re), Tail(s))
      [] OTHER -> s # <<>> /\ Head(s) = h.c /\ RegexTest(Tail(re), Tail(s))

PatternHit(p, name) == RegexTest(RegExp(ReplaceStar(Spell[p.name])), Spell[name])

matchesPattern(name) ==
  LET hits == {i \in DOMAIN patternTargets : PatternHit(patternTargets[i], name)}
  IN IF hits = {} THEN NoTarget
     ELSE patternTargets[CHOOSE i \in hits : \A j \in hits : i <= j]

(***************************************************************************)
(* String.prototype.localeCompare at primary strength: the root collation  *)
(* orders '_' '-' '.' '/' before the letters and ignores case.  No two     *)
(* paths of DISK differ in case only.                                      *)
(***************************************************************************)
Alphabet ==
  << "_", "-", ".", "/", "*", "a", "b", "c", "d", "e", "f", "g", "h", "i", "j",
     "k", "l", "m", "n", "o", "p", "q", "r", "s", "t", "u", "v", "w", "x", "y",
     "z" >>

Fold(c) == IF c = "C" THEN "c" ELSE IF c = "X" THEN "x" ELSE c

Weight(c) == CHOOSE i \in DOMAIN Alphabet : Alphabet[i] = Fold(c)

RECURSIVE localeCompare(_, _)
localeCompare(a, b) ==
  IF a = <<>> THEN (IF b = <<>> THEN 0 ELSE -1)
  ELSE IF b = <<>> THEN 1
  ELSE IF Weight(Head(a)) < Weight(Head(b)) THEN -1
  ELSE IF Weight(Head(a)) > Weight(Head(b)) THEN 1
  ELSE localeCompare(Tail(a), Tail(b))

\* The string of a path: its names, each after a separator.
RECURSIVE PathString(_)
PathString(p) ==
  IF p = <<>> THEN <<>> ELSE <<"/">> \o Spell[Head(p)] \o PathString(Tail(p))

(***************************************************************************)
(* The file system                                                         *)
(***************************************************************************)
KB == 1024
MB == 1024 * 1024
\* What stat reports as the size of a directory.
DirStat == 4 * KB

D(p) == [path |-> p, kind |-> "dir", size |-> DirStat, target |-> <<>>]
F(p, n) == [path |-> p, kind |-> "file", size |-> n, target |-> <<>>]
\* A symbolic link to the path t.
L(p, t) == [path |-> p, kind |-> "link", size |-> 0, target |-> t]

\* The entries that may exist, in groups that exist together.
Base ==
  { D(<<"w">>), D(<<"w", "p">>), F(<<"w", "p", "app.js">>, KB) }
fDeps ==
  { D(<<"w", "node_modules">>), F(<<"w", "node_modules", "a.js">>, 2 * MB),
    D(<<"w", "node_modules", "node_modules">>),
    F(<<"w", "node_modules", "node_modules", "a.js">>, MB) }
fBuild ==
  { D(<<"w", "p", "build">>), F(<<"w", "p", "build", "a.js">>, MB),
    D(<<"w", "p", "build", "node_modules">>),
    F(<<"w", "p", "build", "node_modules", "a.js">>, 3 * MB) }
fCache ==
  { D(<<"w", "p", ".cache">>), F(<<"w", "p", ".cache", "a.js">>, 512 * KB) }
fGit ==
  { D(<<"w", "p", ".git">>), D(<<"w", "p", ".git", "node_modules">>),
    F(<<"w", "p", ".git", "node_modules", "a.js">>, 2 * MB) }
fDeep ==
  { D(<<"w", "p", "q">>), D(<<"w", "p", "q", "coverage">>),
    F(<<"w", "p", "q", "coverage", "a.js">>, 3 * MB) }
fLint ==
  { F(<<"w", "p", ".eslintcache">>, 2 * MB) }
fEgg ==
  { D(<<"w", "p", "x.egg-info">>), F(<<"w", "p", "x.egg-info", "a.js">>, MB) }
fIde ==
  { D(<<"w", ".vscode">>), D(<<"w", ".vscode", "ext">>),
    D(<<"w", ".vscode", "ext", "node_modules">>),
    F(<<"w", ".vscode", "ext", "node_modules", "a.js">>, 2 * MB),
    D(<<"w", ".config">>), D(<<"w", ".config", "Code">>),
    F(<<"w", ".config", "Code", "a.js">>, MB) }

\* A file with the name of a directory rule, a directory with the name of a
\* file rule.
fKinds ==
  { F(<<"w", "coverage">>, 2 * MB),
    D(<<"w", ".eslintcache">>), F(<<"w", ".eslintcache", "a.js">>, 2 * MB) }
\* Names about the pattern *.egg-info: a directory whose name has another
\* character where the pattern has its dot, and a file whose name ends in
\* .egg-info.
fWild ==
  { D(<<"w", "p", "myXegg-info">>), F(<<"w", "p", "myXegg-info", "a.js">>, 2 * MB),
    F(<<"w", "p", "y.egg-info">>, 2 * MB) }
\* Symbolic links: to an ancestor, beside the projects and inside a target,
\* and to nothing.
fLinks ==
  { L(<<"w", "p", "loop">>, <<"w">>),
    D(<<"w", "p", "out">>), F(<<"w", "p", "out", "a.js">>, MB),
    L(<<"w", "p", "out", "loop">>, <<"w">>),
    L(<<"w", "p", "out", "gone">>, <<"w", "zz">>) }

DISK == Base \cup fDeps \cup fBuild \cup fCache \cup fGit \cup fDeep \cup fLint
        \cup fEgg \cup fIde \cup fKinds \cup fWild \cup fLinks

Paths(nodes) == {n.path : n \in nodes}
NodeOf(p) == CHOOSE n \in DISK : n.path = p
KindOf(p) == NodeOf(p).kind
SizeOf(p) == NodeOf(p).size

IsPrefix(a, b) == Len(a) <= Len(b) /\ SubSeq(b, 1, Len(a)) = a
IsProperAncestor(a, b) == Len(a) < Len(b) /\ IsPrefix(a, b)
Parent(p) == SubSeq(p, 1, Len(p) - 1)
basename(p) == p[Len(p)]
join(dir, name) == Append(dir, name)

\* fs is the set of the paths that exist, denied the paths that cannot be
\* opened (EACCES).
Children(fs, dir) == {p \in fs : p # <<>> /\ Parent(p) = dir}

\* readdir(dir, {withFileTypes: true}) throws unless dir is a directory
\* that can be opened.
ReaddirFails(fs, denied, dir) ==
  IF dir \notin fs THEN TRUE ELSE KindOf(dir) # "dir" \/ dir \in denied

\* stat follows symbolic links: the path a path leads to, <<>> when a link
\* of the chain leads nowhere (ENOENT) or the chain does not end (ELOOP).
\* The directories above a path the program opens are never links, since
\* it reaches every path by the names readdir gave it.
RECURSIVE follow(_, _, _)
follow(fs, p, hops) ==
  IF p \notin fs THEN <<>>
  ELSE IF KindOf(p) # "link" THEN p
  ELSE IF hops = 0 THEN <<>>
  ELSE follow(fs, NodeOf(p).target, hops - 1)

\* stat(p) throws when p leads nowhere or cannot be reached.
StatFails(fs, denied, p) == follow(fs, p, Cardinality(fs)) = <<>> \/ p \in denied

\* (await stat(p)).size
statSize(fs, p) == SizeOf(follow(fs, p, Cardinality(fs)))

\* The test made on what stat reports: a link to a directory passes.
isDirectory_stat(p) ==
  \/ KindOf(p) = "dir"
  \/ /\ KindOf(p) = "link"
     /\ IF NodeOf(p).target \in Paths(DISK) THEN KindOf(NodeOf(p).target) = "dir" ELSE FALSE

\* Dirent.isDirectory(): the kind of the entry itself, a link being no
\* directory whatever it leads to.
isDirectory(p) == KindOf(p) = "dir"

\* An aggregator that adds up the files of the directory itself only.
RECURSIVE SumFiles(_, _, _)
SumFiles(fs, denied, entries) ==
  IF entries = {} THEN 0
  ELSE LET e == CHOOSE x \in entries : TRUE
           one == IF isDirectory(e) \/ StatFails(fs, denied, e) THEN 0
                  ELSE statSize(fs, e)
       IN one + SumFiles(fs, denied, entries \ {e})
getDirSize_shallow(fs, denied, dirPath) ==
  IF ReaddirFails(fs, denied, dirPath) THEN 0
  ELSE SumFiles(fs, denied, Children(fs, dirPath))

\* getDirSize: the sum over the entries, an entry that throws adding 0.
RECURSIVE getDirSize(_, _, _)
RECURSIVE SumEntries(_, _, _)
SumEntries(fs, denied, entries) ==
  IF entries = {} THEN 0
  ELSE LET e == CHOOSE x \in entries : TRUE
           one == IF isDirectory(e) THEN getDirSize(fs, denied, e)
                  ELSE IF StatFails(fs, denied, e) THEN 0
                  ELSE statSize(fs, e)
       IN one + SumEntries(fs, denied, entries \ {e})
getDirSize(fs, denied, dirPath) ==
  IF ReaddirFails(fs, denied, dirPath) THEN 0
  ELSE SumEntries(fs, denied, Children(fs, dirPath))

\* rm(p, {recursive: true, force: true}) that succeeds: the subtree is gone.
Remove(fs, p) == {x \in fs : ~IsPrefix(p, x)}

\* The order in which readdir returns the entries is the file system's
\* own: by name, ascending ("asc") or descending ("desc").
RECURSIVE Listing(_, _)
Listing(S, order) ==
  IF S = {} THEN <<>>
  ELSE LET first == CHOOSE x \in S : \A y \in S :
                      IF order = "asc"
                        THEN localeCompare(Spell[basename(x)], Spell[basename(y)]) <= 0
                        ELSE localeCompare(Spell[basename(x)], Spell[basename(y)]) >= 0
       IN <<first>> \o Listing(S \ {first}, order)

(***************************************************************************)
(* The state                                                               *)
(***************************************************************************)
VARIABLES
  cfg,          \* the options, the environment and the tree of this run
  fs,           \* the paths that exist
  pc,           \* where main() is
  stack,        \* the calls of scan() in progress, the innermost last
  found,        \* const found = []
  dirsScanned,  \* let dirsScanned = 0
  i,            \* the position of a cleanup loop in found
  cleaned,      \* let cleaned = 0
  cleanedBytes, \* let cleanedBytes = 0
  exitCode,     \* the status of process.exit, Null while none
  out,          \* what was written to the console, in order
  rmLog,        \* the calls of rm, in order
  asked,        \* the questions asked and the answers read, in order
  listed,       \* the directories scan() listed, with their depth
  classified,   \* the entries scan() matched, in order
  ideSeen,      \* the IDE caches scanIDECaches measured
  discovered    \* found as it was before sortResults

vars == << cfg, fs, pc, stack, found, dirsScanned, i, cleaned, cleanedBytes,
           exitCode, out, rmLog, asked, listed, classified, ideSeen,
           discovered >>

NoHome == <<Null>>

\* const profileCats = ...: the set of a known profile.
profileCats(c) ==
  IF c.profileName = "safe" THEN SAFE_CATS
  ELSE IF c.profileName = "aggressive" THEN AGGRESSIVE_CATS
  ELSE {}
noProfileCats(c) == c.profileName \notin {"safe", "aggressive"}

\* opts.category || null, opts.profile || null: an empty value is no value.
orNull(v) == IF v = "" THEN Null ELSE v

\* No validation at all.
invalidProfile_never(c) == FALSE

\* if (profileName && !['safe', 'aggressive'].includes(profileName))
invalidProfile(c) ==
  c.profileName # Null /\ c.profileName \notin {"safe", "aggressive"}

\* The test one level late.
depthExceeded_late(c, depth) == depth > c.maxDepth + 1

\* if (depth > maxDepth) return
depthExceeded(c, depth) == depth > c.maxDepth

\* sizeMB >= minSizeMB, where sizeMB = size / (1024 * 1024)
sizePasses(c, size) == size >= c.minSizeMB * MB

\* The test of v0.2.0, which knows no profile.
catMatch_noProfile(c, cat) == c.filterCat = Null \/ cat = c.filterCat

\* catMatch and catMatch2
catMatch(c, cat) ==
  (c.filterCat = Null \/ cat = c.filterCat) /\ (noProfileCats(c) \/ cat \in profileCats(c))

\* The hidden-name test placed before the two matches.
classify_hiddenFirst(e) ==
  IF startsWith(basename(e), ".") THEN NoTarget
  ELSE IF basename(e) \in targetNames THEN targetMap(basename(e))
  ELSE IF matchesPattern(basename(e)) # NoTarget /\ isDirectory(e)
    THEN matchesPattern(basename(e))
  ELSE NoTarget

\* The rule scan() applies to an entry: the exact rule of its name, else
\* the pattern its name matches when it is a directory, else none.
classify(e) ==
  IF basename(e) \in targetNames THEN targetMap(basename(e))
  ELSE IF matchesPattern(basename(e)) # NoTarget /\ isDirectory(e)
    THEN matchesPattern(basename(e))
  ELSE NoTarget

\* if (name.startsWith('.') && !targetNames.has(name)) continue
hiddenSkip(e) == startsWith(basename(e), ".") /\ basename(e) \notin targetNames

\* The size scan() gives a matched entry.
entrySize(c, tree, e) ==
  IF isDirectory(e) THEN getDirSize(tree, c.denied, e)
  ELSE IF StatFails(tree, c.denied, e) THEN 0
  ELSE statSize(tree, e)

\* The branch of a matched entry falling through to the recursion.
continueAfterMatch_missing(pushed) == FALSE

\* The `continue` inside the if, beside found.push.
continueAfterMatch_onlyIfPushed(pushed) == pushed

\* The `continue` that ends the branch of a matched entry, whether the
\* entry was pushed to found or not.
continueAfterMatch(pushed) == TRUE

Frame(dir, depth) == [dir |-> dir, depth |-> depth, st |-> "call", entries |-> <<>>]
Top == stack[Len(stack)]
SetTop(fr) == [stack EXCEPT ![Len(stack)] = fr]
Return ==
  /\ stack' = SubSeq(stack, 1, Len(stack) - 1)
  /\ pc' = IF Len(stack) = 1 THEN "ide" ELSE pc

Finding(path, size, cat, ide) ==
  [path |-> path, size |-> size, name |-> basename(path), category |-> cat,
   isIDE |-> ide]

Line(k, path) == [k |-> k, path |-> path]

(***************************************************************************)
(* Start-up: the profile is validated at module level, before main().      *)
(***************************************************************************)
InvalidProfile ==
  /\ pc = "start"
  /\ invalidProfile(cfg)
  /\ out' = Append(out, Line("unknown profile", <<>>))
  /\ exitCode' = 1
  /\ pc' = "exit"
  /\ UNCHANGED << cfg, fs, stack, found, dirsScanned, i, cleaned, cleanedBytes,
                  rmLog, asked, listed, classified, ideSeen, discovered >>

\* main() up to the call scan(scanRoot, 0)
MainStart ==
  /\ pc = "start"
  /\ ~invalidProfile(cfg)
  /\ pc' = "scan"
  /\ stack' = << Frame(cfg.root, 0) >>
  /\ UNCHANGED << cfg, fs, found, dirsScanned, i, cleaned, cleanedBytes, exitCode,
                  out, rmLog, asked, listed, classified, ideSeen, discovered >>

(***************************************************************************)
(* scan(dir, depth), one step per call, per entry and per return           *)
(***************************************************************************)
ScanDepthExceeded ==
  /\ pc = "scan" /\ Top.st = "call"
  /\ depthExceeded(cfg, Top.depth)
  /\ Return
  /\ UNCHANGED << cfg, fs, found, dirsScanned, i, cleaned, cleanedBytes, exitCode,
                  out, rmLog, asked, listed, classified, ideSeen, discovered >>

ScanReaddirFails ==
  /\ pc = "scan" /\ Top.st = "call"
  /\ ~depthExceeded(cfg, Top.depth)
  /\ ReaddirFails(fs, cfg.denied, Top.dir)
  /\ Return
  /\ UNCHANGED << cfg, fs, found, dirsScanned, i, cleaned, cleanedBytes, exitCode,
                  out, rmLog, asked, listed, classified, ideSeen, discovered >>

ScanReaddir ==
  /\ pc = "scan" /\ Top.st = "call"
  /\ ~depthExceeded(cfg, Top.depth)
  /\ ~ReaddirFails(fs, cfg.denied, Top.dir)
  /\ dirsScanned' = dirsScanned + 1
  /\ listed' = listed \cup {[dir |-> Top.dir, depth |-> Top.depth]}
  /\ stack' = SetTop([Top EXCEPT !.st = "loop",
                                 !.entries = Listing(Children(fs, Top.dir), cfg.order)])
  /\ UNCHANGED << cfg, fs, pc, found, i, cleaned, cleanedBytes, exitCode, out,
                  rmLog, asked, classified, ideSeen, discovered >>

\* What the loop does with the frame once an entry is dealt with: on to
\* the next entry, or first into the entry.
Advance == SetTop([Top EXCEPT !.entries = Tail(Top.entries)])

\* The call on the entry put off until the loop over the directory is done.
Descend_deferred(e) ==
  SubSeq(stack, 1, Len(stack) - 1) \o << Frame(e, Top.depth + 1) >>
    \o << [Top EXCEPT !.entries = Tail(Top.entries)] >>

Descend(e) == Append(Advance, Frame(e, Top.depth + 1))

\* A matched entry (the exact branch or the pattern branch).
ScanMatched ==
  /\ pc = "scan" /\ Top.st = "loop" /\ Top.entries # <<>>
  /\ LET e == Head(Top.entries)
         target == classify(e)
         size == entrySize(cfg, fs, e)
     IN /\ target # NoTarget
        /\ classified' = Append(classified, [path |-> e, size |-> size, cat |-> target.cat,
                                             type |-> target.type])
        /\ found' = IF sizePasses(cfg, size) /\ catMatch(cfg, target.cat)
                      THEN Append(found, Finding(e, size, target.cat, FALSE))
                      ELSE found
        /\ stack' = IF continueAfterMatch(sizePasses(cfg, size) /\ catMatch(cfg, target.cat))
                       THEN Advance
                     ELSE IF ~hiddenSkip(e) /\ isDirectory(e) THEN Descend(e)
                     ELSE Advance
  /\ UNCHANGED << cfg, fs, pc, dirsScanned, i, cleaned, cleanedBytes, exitCode, out,
                  rmLog, asked, listed, ideSeen, discovered >>

\* An unmatched hidden entry.
ScanSkipHidden ==
  /\ pc = "scan" /\ Top.st = "loop" /\ Top.entries # <<>>
  /\ LET e == Head(Top.entries)
     IN classify(e) = NoTarget /\ hiddenSkip(e)
  /\ stack' = Advance
  /\ UNCHANGED << cfg, fs, pc, found, dirsScanned, i, cleaned, cleanedBytes, exitCode,
                  out, rmLog, asked, listed, classified, ideSeen, discovered >>

\* An unmatched directory: await scan(join(dir, name), depth + 1)
ScanDescend ==
  /\ pc = "scan" /\ Top.st = "loop" /\ Top.entries # <<>>
  /\ LET e == Head(Top.entries)
     IN /\ classify(e) = NoTarget /\ ~hiddenSkip(e) /\ isDirectory(e)
        /\ stack' = Descend(e)
  /\ UNCHANGED << cfg, fs, pc, found, dirsScanned, i, cleaned, cleanedBytes, exitCode,
                  out, rmLog, asked, listed, classified, ideSeen, discovered >>

\* Any other entry.
ScanPass ==
  /\ pc = "scan" /\ Top.st = "loop" /\ Top.entries # <<>>
  /\ LET e == Head(Top.entries)
     IN classify(e) = NoTarget /\ ~hiddenSkip(e) /\ ~isDirectory(e)
  /\ stack' = Advance
  /\ UNCHANGED << cfg, fs, pc, found, dirsScanned, i, cleaned, cleanedBytes, exitCode,
                  out, rmLog, asked, listed, classified, ideSeen, discovered >>

ScanReturn ==
  /\ pc = "scan" /\ Top.st = "loop" /\ Top.entries = <<>>
  /\ Return
  /\ UNCHANGED << cfg, fs, found, dirsScanned, i, cleaned, cleanedBytes, exitCode,
                  out, rmLog, asked, listed, classified, ideSeen, discovered >>

(***************************************************************************)
(* scanIDECaches()                                                         *)
(***************************************************************************)
\* The caches of IDE_CACHES[k..] that exist as directories, with their sizes.
RECURSIVE ideDirs(_, _, _)
ideDirs(c, tree, k) ==
  IF k > Len(IDE_CACHES) THEN <<>>
  ELSE LET fullPath == c.home \o IDE_CACHES[k]
           rest == ideDirs(c, tree, k + 1)
       IN IF StatFails(tree, c.denied, fullPath) THEN rest
          ELSE IF ~isDirectory(fullPath) THEN rest
          ELSE << [path |-> fullPath, size |-> getDirSize(tree, c.denied, fullPath)] >>
               \o rest

\* if (!home) return
ideMeasured(c, tree) == IF c.home = NoHome THEN <<>> ELSE ideDirs(c, tree, 1)

RECURSIVE ideFindings(_, _)
ideFindings(c, seen) ==
  IF seen = <<>> THEN <<>>
  ELSE (IF sizePasses(c, Head(seen).size)
          THEN << Finding(Head(seen).path, Head(seen).size, "ide", TRUE) >>
          ELSE <<>>) \o ideFindings(c, Tail(seen))

\* if (opts.ide) await scanIDECaches()
ScanIDE ==
  /\ pc = "ide"
  /\ ideSeen' = IF cfg.ide THEN ideMeasured(cfg, fs) ELSE <<>>
  /\ found' = found \o ideFindings(cfg, ideSeen')
  /\ pc' = "sort"
  /\ UNCHANGED << cfg, fs, stack, dirsScanned, i, cleaned, cleanedBytes, exitCode,
                  out, rmLog, asked, listed, classified, discovered >>

(***************************************************************************)
(* sortResults(found): Array.prototype.sort is stable                      *)
(***************************************************************************)
\* The size comparison the wrong way round.
compare_ascending(sortBy, a, b) ==
  CASE sortBy = "name" -> localeCompare(PathString(a.path), PathString(b.path))
    [] sortBy = "type" ->
         LET byCat == localeCompare(Spell[a.category], Spell[b.category])
         IN IF byCat # 0 THEN byCat ELSE a.size - b.size
    [] OTHER -> a.size - b.size

compare(sortBy, a, b) ==
  CASE sortBy = "name" -> localeCompare(PathString(a.path), PathString(b.path))
    [] sortBy = "type" ->
         LET byCat == localeCompare(Spell[a.category], Spell[b.category])
         IN IF byCat # 0 THEN byCat ELSE b.size - a.size
    [] OTHER -> b.size - a.size

\* x goes after every element that does not sort after it.
RECURSIVE insert(_, _, _)
insert(sortBy, sorted, x) ==
  IF sorted = <<>> THEN <<x>>
  ELSE IF compare(sortBy, Head(sorted), x) <= 0
    THEN <<Head(sorted)>> \o insert(sortBy, Tail(sorted), x)
  ELSE <<x>> \o sorted

RECURSIVE sortFrom(_, _, _)
sortFrom(sortBy, sorted, rest) ==
  IF rest = <<>> THEN sorted
  ELSE sortFrom(sortBy, insert(sortBy, sorted, Head(rest)), Tail(rest))

sortResults(sortBy, results) == sortFrom(sortBy, <<>>, results)

SortResults ==
  /\ pc = "sort"
  /\ discovered' = found
  /\ found' = sortResults(cfg.sortBy, found)
  /\ pc' = "report"
  /\ UNCHANGED << cfg, fs, stack, dirsScanned, i, cleaned, cleanedBytes, exitCode,
                  out, rmLog, asked, listed, classified, ideSeen >>

(***************************************************************************)
(* main() after the sort: the report and the cleanup                       *)
(***************************************************************************)
\* The gate without its test.
cleanupRequested_always(c) == TRUE

\* if (opts.clean || opts['dry-run'])
cleanupRequested(c) == c.clean \/ c.dryRun

\* The branches with --yes tested before --dry-run.
cleanupMode_yesFirst(c) ==
  IF c.yes THEN "yes" ELSE IF c.dryRun THEN "dryrun" ELSE "ask"

\* Which branch of the cleanup block runs: the dry run is tested first,
\* then --yes.
cleanupMode(c) ==
  IF c.dryRun THEN "dryrun" ELSE IF c.yes THEN "yes" ELSE "ask"

\* The loops without the IDE test.
skipIDE_never(f) == FALSE

\* if (f.isIDE) { ...; continue }
skipIDE(f) == f.isIDE

\* String.prototype.toLowerCase on the answers that are read.
toLowerCase(a) == IF a = "Y" THEN "y" ELSE IF a = "YES" THEN "yes" ELSE a

\* The test taking "yes" for an answer too.
affirmative_orYes(answer) == toLowerCase(answer) \in {"y", "yes"}

\* if (answer.toLowerCase() === 'y')
affirmative(answer) == toLowerCase(answer) = "y"

\* What a line of input may be.
Answers == {"y", "Y", "n", "", "yes", "YES"}

\* rm outside any try: the rejection ends main().
afterRmThrew_uncaught(mode) == "crashed"

\* Where a loop goes after rm threw: the catch logs, the loop goes on.
afterRmThrew(mode) == mode

RECURSIVE WouldDelete(_)
WouldDelete(fsq) ==
  IF fsq = <<>> THEN <<>>
  ELSE << Line("would delete", Head(fsq).path) >> \o WouldDelete(Tail(fsq))

\* The JSON branch without its return: main() goes on to the cleanup.
ReportJSON_noReturn ==
  /\ pc = "report" /\ cfg.json
  /\ out' = Append(out, Line("json", <<>>))
  /\ pc' = IF found = <<>> THEN "done"
           ELSE IF cleanupRequested(cfg) THEN cleanupMode(cfg) ELSE "done"
  /\ i' = 1 /\ cleaned' = 0 /\ cleanedBytes' = 0
  /\ UNCHANGED << cfg, fs, stack, found, dirsScanned, exitCode, rmLog, asked,
                  listed, classified, ideSeen, discovered >>

\* if (isJSON) { console.log(JSON.stringify(output, null, 2)); return; }
ReportJSON ==
  /\ pc = "report" /\ cfg.json
  /\ out' = Append(out, Line("json", <<>>))
  /\ pc' = "done"
  /\ UNCHANGED << cfg, fs, stack, found, dirsScanned, i, cleaned, cleanedBytes,
                  exitCode, rmLog, asked, listed, classified, ideSeen, discovered >>

ReportNothing ==
  /\ pc = "report" /\ ~cfg.json /\ found = <<>>
  /\ out' = Append(out, Line("nothing found", <<>>))
  /\ pc' = "done"
  /\ UNCHANGED << cfg, fs, stack, found, dirsScanned, i, cleaned, cleanedBytes,
                  exitCode, rmLog, asked, listed, classified, ideSeen, discovered >>

\* The table, then the branch of the cleanup block.
ReportTable ==
  /\ pc = "report" /\ ~cfg.json /\ found # <<>>
  /\ out' = Append(out, Line("table", <<>>))
  /\ pc' = IF cleanupRequested(cfg) THEN cleanupMode(cfg) ELSE "done"
  /\ i' = 1 /\ cleaned' = 0 /\ cleanedBytes' = 0
  /\ UNCHANGED << cfg, fs, stack, found, dirsScanned, exitCode, rmLog, asked,
                  listed, classified, ideSeen, discovered >>

DryRun ==
  /\ pc = "dryrun"
  /\ out' = out \o WouldDelete(found)
  /\ pc' = "done"
  /\ UNCHANGED << cfg, fs, stack, found, dirsScanned, i, cleaned, cleanedBytes,
                  exitCode, rmLog, asked, listed, classified, ideSeen, discovered >>

\* One pass of a cleanup loop over an IDE finding.
LoopSkipIDE ==
  /\ pc \in {"yes", "ask"} /\ i <= Len(found)
  /\ skipIDE(found[i])
  /\ out' = Append(out, Line("skip ide", found[i].path))
  /\ i' = i + 1
  /\ UNCHANGED << cfg, fs, pc, stack, found, dirsScanned, cleaned, cleanedBytes,
                  exitCode, rmLog, asked, listed, classified, ideSeen, discovered >>

\* await rm(f.path, ...) inside try/catch, with what follows either way.
Rm(f, ok) ==
  /\ rmLog' = Append(rmLog, [path |-> f.path, ok |-> ok])
  /\ IF ok
       THEN /\ fs' = Remove(fs, f.path)
            /\ out' = Append(out, Line("deleted", f.path))
            /\ cleaned' = cleaned + 1
            /\ cleanedBytes' = cleanedBytes + f.size
            /\ pc' = pc
       ELSE /\ out' = Append(out, Line("failed", f.path))
            /\ pc' = afterRmThrew(pc)
            /\ UNCHANGED << fs, cleaned, cleanedBytes >>

\* One pass of the --yes loop over any other finding.
YesRemove ==
  /\ pc = "yes" /\ i <= Len(found)
  /\ ~skipIDE(found[i])
  /\ \E ok \in BOOLEAN : Rm(found[i], ok)
  /\ i' = i + 1
  /\ UNCHANGED << cfg, stack, found, dirsScanned, exitCode, asked, listed,
                  classified, ideSeen, discovered >>

\* One pass of the interactive loop over any other finding, answered yes.
AskRemove ==
  /\ pc = "ask" /\ i <= Len(found)
  /\ ~skipIDE(found[i])
  /\ \E answer \in Answers :
       /\ affirmative(answer)
       /\ asked' = Append(asked, [path |-> found[i].path, answer |-> answer])
       /\ \E ok \in BOOLEAN : Rm(found[i], ok)
  /\ i' = i + 1
  /\ UNCHANGED << cfg, stack, found, dirsScanned, exitCode, listed, classified,
                  ideSeen, discovered >>

\* The same, answered anything else.
AskKeep ==
  /\ pc = "ask" /\ i <= Len(found)
  /\ ~skipIDE(found[i])
  /\ \E answer \in Answers :
       /\ ~affirmative(answer)
       /\ asked' = Append(asked, [path |-> found[i].path, answer |-> answer])
  /\ out' = Append(out, Line("skipped", found[i].path))
  /\ i' = i + 1
  /\ UNCHANGED << cfg, fs, pc, stack, found, dirsScanned, cleaned, cleanedBytes,
                  exitCode, rmLog, listed, classified, ideSeen, discovered >>

\* After a loop: the summary when something was cleaned.
LoopEnd ==
  /\ pc \in {"yes", "ask"} /\ i > Len(found)
  /\ out' = IF cleaned > 0 THEN Append(out, Line("cleaned", <<>>)) ELSE out
  /\ pc' = "done"
  /\ UNCHANGED << cfg, fs, stack, found, dirsScanned, i, cleaned, cleanedBytes,
                  exitCode, rmLog, asked, listed, classified, ideSeen, discovered >>

Next ==
  \/ InvalidProfile \/ MainStart
  \/ ScanDepthExceeded \/ ScanReaddirFails \/ ScanReaddir
  \/ ScanMatched \/ ScanSkipHidden \/ ScanDescend \/ ScanPass \/ ScanReturn
  \/ ScanIDE \/ SortResults
  \/ ReportJSON \/ ReportNothing \/ ReportTable
  \/ DryRun \/ LoopSkipIDE \/ YesRemove \/ AskRemove \/ AskKeep \/ LoopEnd

(***************************************************************************)
(* The runs that are checked                                               *)
(***************************************************************************)
\* --max-depth is drawn from 0..MaxDepthArg, --min-size from 0..MaxMinSizeMB.
MaxDepthArg == 2
MaxMinSizeMB == 2

W == <<"w">>

Tree(groups) == Paths(Base \cup UNION groups)

\* dev-sweep /w, every other option left out, on a tree of projects with
\* every usual artifact.
Plain ==
  [ tree |-> Tree({fDeps, fBuild, fCache, fGit, fDeep, fLint, fEgg, fIde}), root |-> W, home |-> NoHome, denied |-> {},
    order |-> "asc", maxDepth |-> MaxDepthArg, minSizeMB |-> 1,
    filterCat |-> Null, profileName |-> Null, sortBy |-> "size",
    clean |-> FALSE, dryRun |-> FALSE, yes |-> FALSE, ide |-> FALSE,
    json |-> FALSE ]

\* The walk: trees, depths and listing orders.
WalkRuns ==
  { [Plain EXCEPT !.tree = Tree(g), !.maxDepth = d, !.order = o, !.minSizeMB = 0] :
      g \in SUBSET {fDeps, fBuild, fCache, fGit, fDeep},
      d \in 0..MaxDepthArg, o \in {"asc", "desc"} }

\* The filters: sizes, categories and profiles, with the IDE caches.
FilterRuns ==
  { [Plain EXCEPT !.tree = Tree(g \cup {fDeep, fEgg, fIde}), !.home = W, !.ide = TRUE,
                  !.minSizeMB = m, !.filterCat = c, !.profileName = pr] :
      g \in SUBSET {fDeps, fBuild, fCache, fLint},
      m \in 0..MaxMinSizeMB,
      c \in {Null, "deps", "build", "cache", "test"},
      pr \in {Null, "safe", "aggressive"} }

\* The sort: keys and listing orders.
SortRuns ==
  { [Plain EXCEPT !.tree = Tree(g \cup {fIde}), !.home = W, !.ide = TRUE,
                  !.sortBy = k, !.order = o, !.minSizeMB = 0] :
      g \in SUBSET {fDeps, fBuild, fCache, fDeep, fLint, fEgg},
      k \in {"size", "name", "type"}, o \in {"asc", "desc"} }

\* The cleanup: every combination of --clean, --dry-run, --yes, --json and
\* --ide, under each sort key.
CleanRuns ==
  { [Plain EXCEPT !.tree = Tree({fDeps, fBuild, fLint, fIde}), !.home = W,
                  !.clean = cl, !.dryRun = dr, !.yes = y, !.json = j, !.ide = ide,
                  !.sortBy = k] :
      cl \in BOOLEAN, dr \in BOOLEAN, y \in BOOLEAN, j \in BOOLEAN,
      ide \in BOOLEAN, k \in {"size", "name", "type"} }

\* Other roots (one of them missing), homes and unreadable directories,
\* cleaned with --yes.
PlaceRuns ==
  { [Plain EXCEPT !.root = r, !.home = h, !.ide = TRUE, !.clean = TRUE, !.yes = TRUE,
                  !.denied = IF dn = "root" THEN {r} ELSE IF dn = "q" THEN {<<"w", "p", "q">>}
                             ELSE {}] :
      r \in {W, <<"w", "p">>, <<"w", ".vscode">>, <<"w", "zz">>},
      h \in {NoHome, W},
      dn \in {"none", "q", "root"} }

\* --profile with a name that is no profile, and with the empty name.
ProfileRuns ==
  { [Plain EXCEPT !.profileName = orNull(p), !.clean = cl, !.yes = cl] :
      p \in {"bogus", ""}, cl \in BOOLEAN }

\* Entries whose kind or name is near a rule's, in both listing orders.
KindRuns ==
  { [Plain EXCEPT !.tree = Tree(g \cup {fDeep, fEgg}), !.order = o, !.minSizeMB = m] :
      g \in SUBSET {fKinds, fWild, fLint},
      o \in {"asc", "desc"}, m \in 0..1 }

\* Sizes: entries inside targets that cannot be opened, links inside
\* targets, at every depth limit.
AggRuns ==
  { [Plain EXCEPT !.tree = Tree({fDeps, fBuild, fLint, fIde} \cup g), !.home = W,
                  !.ide = TRUE, !.maxDepth = d, !.minSizeMB = 0, !.denied = dn] :
      g \in SUBSET {fLinks},
      d \in 0..MaxDepthArg,
      dn \in SUBSET { <<"w", "node_modules", "node_modules">>,
                      <<"w", "p", "build", "a.js">>,
                      <<"w", ".vscode", "ext">>,
                      <<"w", "p", ".eslintcache">> } }

\* Trees with links, under every mode of main().
LinkRuns ==
  { [Plain EXCEPT !.tree = Tree({fDeps, fDeep, fGit, fLinks, fIde}), !.ide = TRUE,
                  !.home = h, !.maxDepth = d, !.profileName = orNull(pr),
                  !.denied = IF dn THEN {<<"w", "p", "q">>} ELSE {},
                  !.root = IF dn /\ h = NoHome THEN <<"w", "p", "q">> ELSE W,
                  !.clean = (m \in {"yes", "ask"}), !.yes = (m = "yes"),
                  !.dryRun = (m = "dryrun"), !.json = (m = "json")] :
      h \in {NoHome, W}, d \in 1..MaxDepthArg, pr \in {"", "bogus"},
      dn \in BOOLEAN, m \in {"report", "dryrun", "yes", "ask", "json"} }

Runs == LinkRuns \cup AggRuns \cup WalkRuns \cup FilterRuns \cup SortRuns \cup CleanRuns \cup PlaceRuns
        \cup ProfileRuns \cup KindRuns

Init ==
  /\ cfg \in Runs
  /\ fs = cfg.tree
  /\ pc = "start"
  /\ stack = <<>>
  /\ found = <<>>
  /\ dirsScanned = 0
  /\ i = 1
  /\ cleaned = 0
  /\ cleanedBytes = 0
  /\ exitCode = Null
  /\ out = <<>>
  /\ rmLog = <<>>
  /\ asked = <<>>
  /\ listed = {}
  /\ classified = <<>>
  /\ ideSeen = <<>>
  /\ discovered = <<>>

Spec == Init /\ [][Next]_vars

(***************************************************************************)
(* What the claims speak of                                                *)
(***************************************************************************)
NonIDE(fsq) == SelectSeq(fsq, LAMBDA f : ~f.isIDE)
PathsOf(sq) == [k \in DOMAIN sq |-> sq[k].path]
Removed == {k \in DOMAIN rmLog : rmLog[k].ok}
FindingAt(path) == CHOOSE f \in Range(found) : f.path = path
Subtree(tree, path) == {x \in tree : IsPrefix(path, x)}
HasLine(k, path) == \E n \in DOMAIN out : out[n] = Line(k, path)

RECURSIVE RemovedBytes(_)
RemovedBytes(ks) ==
  IF ks = {} THEN 0
  ELSE LET k == CHOOSE x \in ks : TRUE
       IN FindingAt(rmLog[k].path).size + RemovedBytes(ks \ {k})

\* The run is over: main() returned, threw, or the process exited.
Ended == pc \notin {"start", "scan", "ide", "sort", "report", "dryrun", "yes", "ask"}

DryRunMode == cfg.dryRun
YesMode == cfg.clean /\ cfg.yes /\ ~cfg.dryRun
AskMode == cfg.clean /\ ~cfg.yes /\ ~cfg.dryRun

\* C1: in every cleanup mode rm is never called on the path of a finding
\* with isIDE = true, and the deleted count and the deleted bytes are those
\* of the removals that succeeded, none of which is of an IDE finding.
C1_IdeNeverRemoved ==
  /\ \A k \in DOMAIN rmLog : \A f \in Range(found) : f.isIDE => f.path # rmLog[k].path
  /\ \A k \in DOMAIN rmLog : \E f \in Range(found) : ~f.isIDE /\ f.path = rmLog[k].path
  /\ cleaned = Cardinality(Removed)
  /\ cleanedBytes = RemovedBytes(Removed)

C1_Witness ==
  /\ pc = "done" /\ YesMode /\ cleaned > 0
  /\ \E f \in Range(found) : f.isIDE /\ HasLine("skip ide", f.path)

\* C2: with --dry-run, alone or with --clean and --yes, nothing is removed:
\* the tree is the tree the run started with, rm was never called, and the
\* deleted count and bytes are zero.
C2_DryRunRemovesNothing ==
  DryRunMode => /\ fs = cfg.tree
                /\ rmLog = <<>>
                /\ cleaned = 0 /\ cleanedBytes = 0

C2_Witness ==
  /\ pc = "done" /\ cfg.dryRun /\ cfg.clean /\ cfg.yes
  /\ found # <<>>
  /\ \A f \in Range(found) : HasLine("would delete", f.path)

\* C3: without --clean rm is never called and the tree stays as it was,
\* whatever the other options are.
C3_NoCleanNoRemoval ==
  ~cfg.clean => rmLog = <<>> /\ fs = cfg.tree /\ asked = <<>>

C3_Witness ==
  /\ pc = "done" /\ ~cfg.clean /\ cfg.yes /\ ~cfg.dryRun /\ cfg.ide
  /\ HasLine("table", <<>>)
  /\ \E f \in Range(found) : ~f.isIDE

\* C4: in interactive mode the questions are about the non-IDE findings,
\* one each, in the order of the sorted result set; rm is called only on a
\* path whose own answer was 'y' or 'Y', and after any other answer the
\* subtree of that path is as it was.
C4_InteractiveConsent ==
  AskMode =>
    /\ Len(asked) <= Len(NonIDE(found))
    /\ PathsOf(asked) = SubSeq(PathsOf(NonIDE(found)), 1, Len(asked))
    /\ pc = "done" /\ HasLine("table", <<>>) => Len(asked) = Len(NonIDE(found))
    /\ \A k \in DOMAIN rmLog :
         \E n \in DOMAIN asked :
           asked[n].path = rmLog[k].path /\ asked[n].answer \in {"y", "Y"}
    /\ \A n \in DOMAIN asked :
         asked[n].answer \notin {"y", "Y"} =>
           /\ Subtree(fs, asked[n].path) = Subtree(cfg.tree, asked[n].path)
           /\ \A k \in DOMAIN rmLog : rmLog[k].path # asked[n].path

C4_Witness ==
  /\ pc = "done" /\ AskMode
  /\ \E a, b, c \in DOMAIN asked :
       /\ asked[a].answer = "yes" /\ asked[b].answer = "" /\ asked[c].answer = "Y"
       /\ asked[c].path \notin fs
       /\ asked[a].path \in fs

\* C5: with --clean --yes rm is called on every non-IDE finding, in order;
\* a call that throws is reported, adds nothing to the deleted count and
\* bytes, and the loop goes on to the findings after it; in interactive
\* mode a call that throws does not stop the questions after it.
C5_FailuresDoNotStopTheLoop ==
  /\ YesMode /\ pc = "yes" =>
       PathsOf(rmLog) = PathsOf(NonIDE(SubSeq(found, 1, i - 1)))
  /\ YesMode /\ Ended /\ HasLine("table", <<>>) =>
       PathsOf(rmLog) = PathsOf(NonIDE(found))
  /\ AskMode /\ Ended /\ HasLine("table", <<>>) =>
       PathsOf(asked) = PathsOf(NonIDE(found))
  /\ \A k \in DOMAIN rmLog :
       ~rmLog[k].ok => HasLine("failed", rmLog[k].path) /\ ~HasLine("deleted", rmLog[k].path)
  /\ cleaned = Cardinality(Removed)
  /\ cleanedBytes = RemovedBytes(Removed)

C5_Witness ==
  /\ pc = "done" /\ YesMode
  /\ \E k, m \in DOMAIN rmLog : k < m /\ ~rmLog[k].ok /\ rmLog[m].ok
  /\ cleaned < Len(rmLog)

\* scan(scanRoot, 0) has returned.
PastScan == pc \notin {"start", "scan", "exit"}
\* sortResults(found) has returned.
PastSort == pc \notin {"start", "scan", "ide", "sort", "exit"}

ClassifiedPaths == {classified[k].path : k \in DOMAIN classified}
FoundPaths == {f.path : f \in Range(found)}
WalkFound == {f \in Range(found) : ~f.isIDE}
ListedDirs == {l.dir : l \in listed}

\* The entry is one the catalogue matches: by its exact name, or, being a
\* directory, by a pattern.
IsTarget(e) ==
  \/ basename(e) \in targetNames
  \/ isDirectory(e) /\ matchesPattern(basename(e)) # NoTarget

\* The bytes the aggregator can reach below top: the files whose
\* directories, from top down, can all be opened.
Reachable(top, p) ==
  /\ p \in cfg.tree /\ KindOf(p) # "dir" /\ IsProperAncestor(top, p)
  /\ p \notin cfg.denied
  /\ \A n \in Len(top)..(Len(p) - 1) : SubSeq(p, 1, n) \notin cfg.denied

\* What a file or a link adds to a sum of sizes: a file its size, a link
\* the stat size of what it leads to (a directory's own, not its content),
\* nothing when it leads nowhere.
LeafBytes(p) ==
  IF KindOf(p) = "file" THEN SizeOf(p)
  ELSE IF StatFails(cfg.tree, {}, p) THEN 0
  ELSE statSize(cfg.tree, p)

RECURSIVE SumSizes(_)
SumSizes(ps) ==
  IF ps = {} THEN 0
  ELSE LET x == CHOOSE y \in ps : TRUE IN LeafBytes(x) + SumSizes(ps \ {x})

BytesBelow(top) == SumSizes({p \in cfg.tree : Reachable(top, p)})

\* C6: the walker lists no entry the matcher classified and nothing below
\* one, so among the findings of the walk none is a proper ancestor of
\* another; a target nested in a matched target is neither classified nor
\* reported, and the size of a matched directory is the sum of all the
\* bytes below it, those of nested targets included.
C6_MatchedIsNeverEntered ==
  /\ \A l \in listed : \A c \in ClassifiedPaths : ~IsPrefix(c, l.dir)
  /\ \A f, g \in WalkFound : ~IsProperAncestor(f.path, g.path)
  /\ \A c \in ClassifiedPaths : \A p \in cfg.tree :
       IsProperAncestor(c, p) => p \notin ClassifiedPaths /\ p \notin FoundPaths
  /\ \A f \in WalkFound : isDirectory(f.path) => f.size = BytesBelow(f.path)

C6_Witness ==
  /\ pc = "done"
  /\ \E f \in WalkFound : \E p \in cfg.tree :
       /\ IsProperAncestor(f.path, p) /\ basename(p) = "node_modules"
       /\ basename(f.path) = "build" /\ f.size = 4 * MB

\* C7: scan lists a directory only at a depth d <= maxDepth, the root being
\* at depth 0; every target among the entries of a listed directory is
\* classified, and nothing is classified outside the listed directories.
\* With maxDepth = 0 the targets that are children of the root are
\* classified and, when they pass the filters, reported by the walk, and
\* nothing below a child of the root is.
C7_DepthBound ==
  /\ \A l \in listed : l.depth <= cfg.maxDepth /\ l.depth = Len(l.dir) - Len(cfg.root)
  /\ \A c \in ClassifiedPaths : Parent(c) \in ListedDirs
  /\ \A f \in WalkFound : f.path \in ClassifiedPaths
  /\ PastScan =>
       \A l \in listed : \A e \in Children(cfg.tree, l.dir) :
         IsTarget(e) => e \in ClassifiedPaths
  /\ cfg.maxDepth = 0 =>
       /\ \A c \in ClassifiedPaths : Parent(c) = cfg.root
       /\ \A f \in WalkFound : Parent(f.path) = cfg.root
       /\ PastScan /\ cfg.root \in ListedDirs =>
            \A e \in Children(cfg.tree, cfg.root) :
              IsTarget(e) /\ cfg.minSizeMB = 0 /\ cfg.filterCat = Null
                /\ cfg.profileName = Null
              => e \in FoundPaths

C7_Witness ==
  /\ pc = "done" /\ cfg.maxDepth = 0
  /\ <<"w", "node_modules">> \in FoundPaths
  /\ <<"w", "p", "build">> \in cfg.tree
  /\ <<"w", "p", "build">> \notin FoundPaths

\* C8: an entry with a name that begins with '.' and that the matcher does
\* not classify is not listed by the walk and nothing at or below it is
\* classified or reported by the walk; an entry with a hidden name that is
\* a catalogue target is classified and, when it passes the filters,
\* reported.
C8_HiddenAfterClassification ==
  \A l \in listed : \A e \in Children(cfg.tree, l.dir) :
    /\ startsWith(basename(e), ".") /\ ~IsTarget(e) =>
         /\ \A d \in ListedDirs : ~IsPrefix(e, d)
         /\ \A c \in ClassifiedPaths : ~IsPrefix(e, c)
         /\ \A f \in WalkFound : ~IsPrefix(e, f.path)
    /\ startsWith(basename(e), ".") /\ basename(e) \in targetNames /\ PastScan =>
         /\ e \in ClassifiedPaths
         /\ cfg.minSizeMB = 0 /\ cfg.filterCat = Null /\ cfg.profileName = Null
              => e \in FoundPaths

C8_Witness ==
  /\ pc = "done"
  /\ <<"w", "p">> \in ListedDirs
  /\ <<"w", "p", ".git", "node_modules">> \in cfg.tree
  /\ <<"w", "p", ".cache">> \in FoundPaths
  /\ \A f \in Range(found) : ~IsPrefix(<<"w", "p", ".git">>, f.path)

\* C9: a classified entry is in the result set exactly when its size is at
\* least minSizeMB megabytes, its category is the --category filter if one
\* is set, and its category is in the profile's set if a profile is set
\* (safe: deps, cache; aggressive: deps, cache, build, test, logs); an IDE
\* cache that was measured is in the result set exactly when its size is at
\* least minSizeMB megabytes.
C9_FilterAtDiscovery ==
  /\ \A k \in DOMAIN classified :
       LET c == classified[k] IN
       (\E f \in WalkFound : f.path = c.path /\ f.size = c.size /\ f.category = c.cat)
       <=> /\ c.size >= cfg.minSizeMB * MB
           /\ cfg.filterCat = Null \/ c.cat = cfg.filterCat
           /\ \/ cfg.profileName = Null
              \/ cfg.profileName = "safe" /\ c.cat \in {"deps", "cache"}
              \/ cfg.profileName = "aggressive"
                   /\ c.cat \in {"deps", "cache", "build", "test", "logs"}
  /\ \A k \in DOMAIN ideSeen :
       (\E f \in Range(found) : f.isIDE /\ f.path = ideSeen[k].path)
       <=> ideSeen[k].size >= cfg.minSizeMB * MB
  /\ \A f \in Range(found) :
       IF f.isIDE THEN \E k \in DOMAIN ideSeen : ideSeen[k].path = f.path
       ELSE f.path \in ClassifiedPaths

C9_Witness ==
  /\ pc = "done" /\ cfg.profileName = "safe" /\ cfg.filterCat = "deps"
  /\ \E k \in DOMAIN classified :
       classified[k].cat = "build" /\ classified[k].path \notin FoundPaths
  /\ \E k \in DOMAIN classified :
       classified[k].cat = "cache" /\ classified[k].size >= cfg.minSizeMB * MB
         /\ classified[k].path \notin FoundPaths
  /\ \E f \in WalkFound : f.category = "deps"
  /\ \E f \in Range(found) : f.isIDE
  /\ \E k \in DOMAIN ideSeen : ideSeen[k].path \notin FoundPaths

Count(sq, x) == Cardinality({k \in DOMAIN sq : sq[k] = x})

\* C10: after the sort the result set is a permutation of what was
\* discovered; under key size the sizes do not increase; under key name
\* the paths do not decrease; under key type the categories do not
\* decrease, equal categories are contiguous, and within a category the
\* sizes do not increase.
C10_Sorted ==
  PastSort =>
    /\ Len(found) = Len(discovered)
    /\ \A x \in Range(found) \cup Range(discovered) : Count(found, x) = Count(discovered, x)
    /\ cfg.sortBy = "size" =>
         \A k \in 1..(Len(found) - 1) : found[k].size >= found[k + 1].size
    /\ cfg.sortBy = "name" =>
         \A k \in 1..(Len(found) - 1) :
           localeCompare(PathString(found[k].path), PathString(found[k + 1].path)) <= 0
    /\ cfg.sortBy = "type" =>
         /\ \A k \in 1..(Len(found) - 1) :
              /\ localeCompare(Spell[found[k].category], Spell[found[k + 1].category]) <= 0
              /\ found[k].category = found[k + 1].category
                   => found[k].size >= found[k + 1].size
         /\ \A a, b, c \in DOMAIN found :
              a < b /\ b < c /\ found[a].category = found[c].category
                => found[b].category = found[a].category

C10_Witness ==
  /\ pc = "done" /\ cfg.sortBy = "type"
  /\ Len(found) >= 5 /\ found # discovered
  /\ \E a, b \in DOMAIN found :
       a < b /\ found[a].category = found[b].category /\ found[a].size > found[b].size
  /\ \E a, b \in DOMAIN found :
       a < b /\ found[a].category # found[b].category /\ found[a].size < found[b].size

\* C11: an exact rule classifies an entry only when the entry is of the
\* kind the rule declares: every entry classified by an exact rule, and
\* every finding of the walk that comes of one, is a directory under a
\* directory rule and a regular file under a file rule.
C11_ExactRuleChecksKind ==
  /\ \A k \in DOMAIN classified :
       classified[k].type # "pattern" => KindOf(classified[k].path) = classified[k].type
  /\ \A f \in WalkFound :
       f.name \in targetNames => KindOf(f.path) = targetMap(f.name).type

\* A report was written: the JSON document, the table, or the line that
\* nothing was found.
Reported == HasLine("json", <<>>) \/ HasLine("table", <<>>) \/ HasLine("nothing found", <<>>)

\* C12: when the root cannot be listed the run ends with a failure status
\* and writes no report; when a directory below the root cannot be listed,
\* nothing at or below it is classified, its siblings are listed all the
\* same, and the run ends with a report.
C12_UnlistableRootIsFatal ==
  /\ ReaddirFails(cfg.tree, cfg.denied, cfg.root) =>
       /\ ~Reported
       /\ Ended => exitCode = 1
  /\ ~ReaddirFails(cfg.tree, cfg.denied, cfg.root) /\ ~invalidProfile(cfg) =>
       /\ \A d \in cfg.denied : \A c \in ClassifiedPaths : ~IsProperAncestor(d, c)
       /\ PastScan =>
            \A d \in cfg.denied : \A e \in Children(cfg.tree, Parent(d)) :
              Parent(d) \in ListedDirs /\ e # d /\ isDirectory(e) /\ ~IsTarget(e)
                /\ ~hiddenSkip(e) /\ Len(e) - Len(cfg.root) <= cfg.maxDepth
              => e \in ListedDirs
       /\ Ended => Reported

\* C13: with a profile name that is neither safe nor aggressive the run
\* goes from its start straight to its exit: no directory is listed, no
\* size is measured, nothing is found, asked or removed, and at the exit
\* the error is the only output and the status is 1.
C13_InvalidProfileExitsFirst ==
  cfg.profileName \notin {Null, "safe", "aggressive"} =>
    /\ pc \in {"start", "exit"}
    /\ stack = <<>> /\ listed = {} /\ dirsScanned = 0
    /\ classified = <<>> /\ ideSeen = <<>> /\ found = <<>>
    /\ rmLog = <<>> /\ asked = <<>> /\ fs = cfg.tree
    /\ pc = "exit" => exitCode = 1 /\ out = << Line("unknown profile", <<>>) >>
    /\ pc = "start" => exitCode = Null /\ out = <<>>

C13_Witness ==
  /\ pc = "exit" /\ cfg.profileName = "bogus" /\ cfg.clean /\ cfg.yes
  /\ exitCode = 1 /\ HasLine("unknown profile", <<>>)

\* What an entry of a measured directory adds to its size: nothing when
\* it cannot be opened, every byte below it when it is a directory, its
\* stat size otherwise.
ChildBytes(e) ==
  IF e \in cfg.denied THEN 0
  ELSE IF isDirectory(e) THEN BytesBelow(e)
  ELSE LeafBytes(e)

RECURSIVE SumChildBytes(_)
SumChildBytes(es) ==
  IF es = {} THEN 0
  ELSE LET e == CHOOSE x \in es : TRUE IN ChildBytes(e) + SumChildBytes(es \ {e})

\* C14: the size measured for a directory, whether matched by the walk or
\* an IDE cache, is the sum over its entries of the size of each, a
\* sub-directory counting with all the bytes below it at any depth and
\* whatever maxDepth is, an entry that cannot be listed or stat'ed
\* counting 0; the size measured for a matched file is its stat size, 0
\* when stat fails.
C14_SizeIsSumOfChildren ==
  /\ \A k \in DOMAIN classified :
       LET c == classified[k] IN
       c.size = IF isDirectory(c.path)
                  THEN (IF c.path \in cfg.denied THEN 0
                        ELSE SumChildBytes(Children(cfg.tree, c.path)))
                  ELSE ChildBytes(c.path)
  /\ \A k \in DOMAIN ideSeen :
       ideSeen[k].size = SumChildBytes(Children(cfg.tree, ideSeen[k].path))

C14_Witness ==
  /\ pc = "done" /\ cfg.maxDepth = 0
  /\ cfg.denied = { <<"w", "node_modules", "node_modules">>, <<"w", ".vscode", "ext">> }
  /\ \E k \in DOMAIN classified :
       classified[k].path = <<"w", "node_modules">> /\ classified[k].size = 2 * MB
  /\ \E k \in DOMAIN ideSeen :
       ideSeen[k].path = <<"w", ".vscode">> /\ ideSeen[k].size = 0
  /\ \E k \in DOMAIN ideSeen :
       ideSeen[k].path = <<"w", ".config", "Code">> /\ ideSeen[k].size = MB

\* No call of scan is on a link, every directory scan lists is a directory
\* reached from the root through directories only and is listed once, and
\* the size of a matched directory counts a link in it as a leaf: with the
\* stat size of what the link leads to, and nothing of what is below that.
LinksAreLeaves ==
  /\ \A n \in DOMAIN stack :
       stack[n].dir \in cfg.tree => KindOf(stack[n].dir) = "dir"
  /\ \A l \in listed :
       \A n \in Len(cfg.root)..Len(l.dir) : KindOf(SubSeq(l.dir, 1, n)) = "dir"
  /\ dirsScanned = Cardinality(listed)
  /\ \A k \in DOMAIN classified :
       KindOf(classified[k].path) = "dir" =>
         classified[k].size = BytesBelow(classified[k].path)
  /\ \A k \in DOMAIN classified :
       KindOf(classified[k].path) = "link" => classified[k].size <= DirStat

\* The steps scan has left at most, on a finite tree whose links are
\* leaves: for each call in progress its return and two per entry still to
\* come, and for each directory not listed yet its listing and two per
\* entry of it.
Unlisted == {d \in cfg.tree : KindOf(d) = "dir" /\ d \notin ListedDirs}
Pending == UNION {Range(stack[n].entries) : n \in DOMAIN stack}
ScanCost ==
  Len(stack) + 2 * Cardinality(Pending)
  + Cardinality(Unlisted) + 2 * Cardinality({p \in cfg.tree : Parent(p) \in Unlisted})

\* The steps a run has left at most: those of the part of main() it is in,
\* and a full measure for each part still to come.
PhaseCost == 3 + 3 * Cardinality(Paths(DISK))
Variant ==
  CASE pc = "start" -> 5 * PhaseCost
    [] pc = "scan" -> 4 * PhaseCost + ScanCost
    [] pc = "ide" -> 4 * PhaseCost
    [] pc = "sort" -> 3 * PhaseCost
    [] pc = "report" -> 2 * PhaseCost
    [] pc \in {"dryrun", "yes", "ask"} -> PhaseCost + (Len(found) + 1 - i)
    [] OTHER -> 0

\* C15: no call of scan and no recursion of the size aggregator goes
\* through a symbolic link, and every run comes to its end, on trees with
\* links that lead back to an ancestor too: each step of a run lowers a
\* count of the steps left, which is never negative and is finite on a
\* finite tree because links count as leaves.
C15_LinksAreLeavesAndRunsEnd ==
  /\ []LinksAreLeaves
  /\ [](Variant >= 0)
  /\ [][Variant' < Variant]_vars

C15_Witness ==
  /\ pc = "done"
  /\ <<"w", "p", "loop">> \in cfg.tree /\ <<"w", "p">> \in ListedDirs
  /\ <<"w", "p", "loop">> \notin ListedDirs
  /\ \E k \in DOMAIN classified :
       /\ classified[k].path = <<"w", "p", "out">>
       /\ classified[k].size = MB + DirStat

\* The characters of cs end with those of suffix, each as it is written.
EndsWith(cs, suffix) ==
  Len(cs) >= Len(suffix) /\ SubSeq(cs, Len(cs) - Len(suffix) + 1, Len(cs)) = suffix

EggInfoSuffix == SubSeq(Spell["*.egg-info"], 2, Len(Spell["*.egg-info"]))

\* C16: among the entries of the directories the walk listed, those the
\* pattern *.egg-info classifies are exactly the directories whose name
\* ends in the characters .egg-info and is not the name of an exact rule;
\* no other name and no entry that is not a directory is classified by the
\* pattern.
C16_WildcardIsLiteralSuffix ==
  PastScan =>
    \A l \in listed : \A e \in Children(cfg.tree, l.dir) :
      (\E k \in DOMAIN classified :
         classified[k].path = e /\ classified[k].type = "pattern")
      <=> /\ KindOf(e) = "dir"
          /\ EndsWith(Spell[basename(e)], EggInfoSuffix)
          /\ basename(e) \notin targetNames

\* The findings of the walk in the order scan pushed them.
WalkSeq == NonIDE(IF PastSort THEN discovered ELSE found)

\* How many names two paths share from their start.
CommonLen(f, g) ==
  CHOOSE n \in 0..Len(f) :
    /\ n <= Len(g) /\ SubSeq(f, 1, n) = SubSeq(g, 1, n)
    /\ n = Len(f) \/ n = Len(g) \/ f[n + 1] # g[n + 1]

\* readdir returns x before y, both entries of the same directory.
ListedBefore(x, y) ==
  /\ Parent(x) = Parent(y)
  /\ IF cfg.order = "asc"
       THEN localeCompare(Spell[basename(x)], Spell[basename(y)]) < 0
       ELSE localeCompare(Spell[basename(x)], Spell[basename(y)]) > 0

\* C17 as claimed: for every directory, the findings among its own entries
\* come before every finding made inside any of its sub-directories.
C17_PreOrder ==
  \A a, b \in DOMAIN WalkSeq :
    IsProperAncestor(Parent(WalkSeq[a].path), Parent(WalkSeq[b].path)) => a < b

\* C17: before the sort the findings of the walk are in the order of a
\* depth-first walk in listing order: of two findings the first is the one
\* reached through the entry that readdir returned first in the directory
\* where their paths part, be that entry a match or a sub-directory.
C17_DepthFirstInListingOrder ==
  \A a, b \in DOMAIN WalkSeq :
    a < b =>
      LET f == WalkSeq[a].path
          g == WalkSeq[b].path
          n == CommonLen(f, g)
      IN /\ n < Len(f) /\ n < Len(g)
         /\ ListedBefore(SubSeq(f, 1, n + 1), SubSeq(g, 1, n + 1))

C17_Witness ==
  /\ pc = "done" /\ Len(WalkSeq) >= 3
  /\ \E a, b \in DOMAIN WalkSeq :
       /\ a < b
       /\ IsProperAncestor(Parent(WalkSeq[b].path), Parent(WalkSeq[a].path))
  /\ \E a, b \in DOMAIN WalkSeq :
       /\ a < b
       /\ IsProperAncestor(Parent(WalkSeq[a].path), Parent(WalkSeq[b].path))

\* C18: in the dry run, in the interactive loop and in the --yes loop alike,
\* every finding with isIDE = true is reported as skipped once the mode is
\* through, and at no time is it listed as one that would be deleted or as
\* one that was deleted.
C18_IdeReportedAsSkipped ==
  \A f \in Range(found) :
    f.isIDE =>
      /\ ~HasLine("would delete", f.path)
      /\ ~HasLine("deleted", f.path)
      /\ pc = "done" /\ HasLine("table", <<>>) /\ (DryRunMode \/ YesMode \/ AskMode)
           => HasLine("skip ide", f.path)

\* C19: with --json the report is the last thing the run does: at no time
\* is a question asked, rm called or the tree changed, no cleanup branch is
\* entered, and once the JSON document is written the run is over with the
\* document as its only output, --clean and --yes notwithstanding.
C19_JsonEndsAfterReport ==
  cfg.json =>
    /\ rmLog = <<>> /\ asked = <<>> /\ fs = cfg.tree
    /\ pc \notin {"dryrun", "yes", "ask"}
    /\ HasLine("json", <<>>) <=> pc = "done"
    /\ pc = "done" => out = << Line("json", <<>>) >>

C19_Witness ==
  /\ pc = "done" /\ cfg.json /\ cfg.clean /\ cfg.yes /\ ~cfg.dryRun
  /\ \E f \in Range(found) : ~f.isIDE
  /\ HasLine("json", <<>>)

\* C20: a matched directory that is left out of the result set, for its
\* size, its category or the profile, is not listed by the walk any more
\* than one that is in it: nothing below it is listed, classified or
\* found, a target below it that would pass the filters included.
C20_FilteredOutIsNotEntered ==
  \A k \in DOMAIN classified :
    LET c == classified[k].path IN
    c \notin FoundPaths =>
      /\ \A l \in listed : ~IsPrefix(c, l.dir)
      /\ \A p \in cfg.tree :
           IsProperAncestor(c, p) => p \notin ClassifiedPaths /\ p \notin FoundPaths

C20_Witness ==
  /\ pc = "done" /\ cfg.filterCat = "deps" /\ cfg.minSizeMB = 1
  /\ <<"w", "p", "build">> \in ClassifiedPaths
  /\ <<"w", "p", "build">> \notin FoundPaths
  /\ <<"w", "p", "build", "node_modules">> \in cfg.tree
  /\ sizePasses(cfg, BytesBelow(<<"w", "p", "build", "node_modules">>))
  /\ <<"w", "p", "build", "node_modules">> \notin FoundPaths
  /\ <<"w", "node_modules">> \in FoundPaths

\* C21: with --ide, whatever the root and the cleanup mode, rm is never
\* called on the path of an IDE finding or on a path beneath one, and the
\* subtree of every IDE finding stays as it was when the run began.
C21_NothingRemovedInsideIdeCache ==
  cfg.ide =>
    \A f \in Range(found) :
      f.isIDE =>
        /\ \A k \in DOMAIN rmLog : ~IsPrefix(f.path, rmLog[k].path)
        /\ Subtree(fs, f.path) = Subtree(cfg.tree, f.path)
====
